---- MODULE Spec2Model ----
(***************************************************************************)
(* Model of run_query.py: the two-stage Wikidata mineral extraction.       *)
(*                                                                         *)
(* A string is a sequence of atoms (an atom is one character, or an        *)
(* indivisible piece of text such as a URI prefix that ends in "/").       *)
(* Python's None (and pandas' NaN) is the value Null.  A DataFrame is a    *)
(* record [columns, rows]: a set of column names and a sequence of rows,   *)
(* each row a function from the column names to values.                    *)
(***************************************************************************)
EXTENDS Integers, Sequences, FiniteSets, TLC

VARIABLES pc, item_uris, i, all_results_df, qids, j, labels_map, file,
          events, ds, run, prev

vars == <<pc, item_uris, i, all_results_df, qids, j, labels_map, file,
          events, ds, run, prev>>

(***************************************************************************)
(* Bounds of the model.                                                    *)
(***************************************************************************)
\* Stage 1 returns at most MaxBatches * BATCH_SIZE rows.
MaxBatches == 3
\* The tables process_and_save_data is started on directly have at most
\* MaxRows rows.
MaxRows == 2
\* The pipeline is run at most MaxRuns times in a row.
MaxRuns == 2

(***************************************************************************)
(* Program constants.                                                      *)
(***************************************************************************)
BATCH_SIZE == 50
CHUNK_SIZE == 50
HTTP_OK == 200

ENTITY_PREFIX == "http://www.wikidata.org/entity/"
OTHER_PREFIX == "http://example.org/"
GENID_PREFIX == "http://www.wikidata.org/.well-known/genid/"
IMAGE_PREFIX == "http://commons.wikimedia.org/wiki/Special:FilePath/"

(***************************************************************************)
(* Strings.                                                                *)
(***************************************************************************)
Null == <<"<None>">>

\* The atoms that begin with the characters "http".
HttpAtoms == {ENTITY_PREFIX, OTHER_PREFIX, GENID_PREFIX, IMAGE_PREFIX}

\* The atoms that contain "/": each of them ends in "/".
SlashAtoms == HttpAtoms \cup {"/"}

DigitDot == {"0", "1", "2", "3", "4", "5", "6", "7", "8", "9", "."}

Digits == DigitDot \ {"."}

MaxOf(S) == CHOOSE k \in S : \A m \in S : m <= k

MinOf(S) == CHOOSE k \in S : \A m \in S : k <= m

Min2(a, b) == IF a <= b THEN a ELSE b

\* q.startswith('http')
StartsWithHttp(q) == Len(q) > 0 /\ q[1] \in HttpAtoms

\* The truth value of a string in `q and ...`: the empty string is false.
Truthy(q) == q # Null /\ Len(q) > 0

\* q.split('/')[-1]: the text after the last "/".
LastSegment(q) ==
    LET idx == {k \in 1..Len(q) : q[k] \in SlashAtoms}
    IN  IF idx = {} THEN q ELSE SubSeq(q, MaxOf(idx) + 1, Len(q))

\* str(x)
Str(x) == IF x = Null THEN <<"N", "o", "n", "e">> ELSE x

\* re.search(r'([0-9\.]+)', s).group(1), or None without a match: the
\* leftmost longest run of digits and dots.
ReSearch(s) ==
    LET hits == {k \in 1..Len(s) : s[k] \in DigitDot}
    IN  IF hits = {} THEN Null
        ELSE LET a == MinOf(hits)
                 b == MaxOf({e \in a..Len(s) : \A k \in a..e : s[k] \in DigitDot})
             IN  SubSeq(s, a, b)

ExtractDensity(x) == ReSearch(Str(x))

Range(s) == {s[k] : k \in 1..Len(s)}

\* The distinct values of s[lo..hi] in order of first appearance (by halves:
\* the values of the right half that the left half lacks follow the left's).
RECURSIVE UniqueRange(_, _, _)
UniqueRange(s, lo, hi) ==
    IF lo > hi THEN <<>>
    ELSE IF lo = hi THEN <<s[lo]>>
    ELSE LET mid == (lo + hi) \div 2
             left == UniqueRange(s, lo, mid)
             seen == Range(left)
         IN  left \o SelectSeq(UniqueRange(s, mid + 1, hi), LAMBDA x : x \notin seen)

\* Series.unique(): the distinct values in order of first appearance.
Unique(s) == UniqueRange(s, 1, Len(s))

RECURSIVE FlattenRange(_, _, _)
FlattenRange(ss, lo, hi) ==
    IF lo > hi THEN <<>>
    ELSE IF lo = hi THEN ss[lo]
    ELSE LET mid == (lo + hi) \div 2
         IN  FlattenRange(ss, lo, mid) \o FlattenRange(ss, mid + 1, hi)

\* The concatenation of a sequence of sequences.
Flatten(ss) == FlattenRange(ss, 1, Len(ss))

Reverse(s) == [k \in 1..Len(s) |-> s[Len(s) + 1 - k]]

RotateLeft(s) == IF Len(s) <= 1 THEN s ELSE Append(Tail(s), Head(s))


(***************************************************************************)
(* The remote dataset.  A dataset d fixes what the two endpoints hold:     *)
(*   d.n        the number of result rows of the stage-1 query             *)
(*   d.shape    how the stage-1 rows bind ?item                            *)
(*   d.rowsPer  how many stage-2 rows an item has                          *)
(*   d.vars2    the variables the stage-2 query declares                   *)
(*   d.loc      what the mainLocation values look like                     *)
(***************************************************************************)
MaxN == MaxBatches * BATCH_SIZE

Code(k) == <<"Q", ToString(k)>>

Item(k) == <<ENTITY_PREFIX>> \o Code(k)

\* The identifier codes the lookup endpoint does not return an entity for.
AbsentCodes == {Code(3), Code(53)}

\* The entities that have no label in the requested language.
UnlabelledCodes == {Code(2), Code(52), Code(1001)}

LabelText(code) == <<"zh-hans:">> \o code

Stage1Vars(d) == IF d.shape = "noitemvar" THEN <<"mineral">> ELSE <<"item">>

Stage1Bindings(d) ==
    [k \in 1..d.n |->
        CASE d.shape = "distinct"  -> ("item" :> Item(k))
          [] d.shape = "dup"       -> ("item" :> Item(((k - 1) % ((d.n + 1) \div 2)) + 1))
          [] d.shape = "unbound"   -> IF k % 2 = 1 THEN <<>> ELSE ("item" :> Item(k))
          [] d.shape = "noitemvar" -> ("mineral" :> Item(k))]

Stage2Vars(d) ==
    CASE d.vars2 = "full"  -> <<"item", "chemicalFormula", "densityNode", "color",
                                "crystalSystem", "mainLocation", "image">>
      [] d.vars2 = "noloc" -> <<"item", "chemicalFormula", "densityNode", "color">>

\* The numbers of the items the endpoints know, by the digits of their codes.
ItemNumber ==
    [digits \in {ToString(k) : k \in 1..MaxN} |->
        CHOOSE k \in 1..MaxN : ToString(k) = digits]

\* The number of the item an identifier names, 0 when it names none.
ItemIndex(uri) ==
    IF /\ Len(uri) = 3
       /\ uri[1] = ENTITY_PREFIX
       /\ uri[2] = "Q"
       /\ uri[3] \in DOMAIN ItemNumber
    THEN ItemNumber[uri[3]]
    ELSE 0

Stage2RowCount(d, k) ==
    CASE k = 0               -> 0
      [] d.rowsPer = "zero"  -> 0
      [] d.rowsPer = "one"   -> 1
      [] d.rowsPer = "mixed" -> k % 3

\* The value the r-th stage-2 row of item k binds to variable c (Null: unbound).
Stage2Value(d, k, r, c) ==
    CASE c = "item"            -> Item(k)
      [] c = "chemicalFormula" -> <<"SiO2">>
      [] c = "densityNode"     ->
            CASE k % 3 = 1 -> <<"2", ".", "6", "5", " ", "g", "/", "c", "m", "3">>
              [] k % 3 = 2 -> Null
              [] OTHER     -> <<"n", ".", "a", ".">>
      [] c = "color"           -> IF k % 4 = 0 THEN Null ELSE Item(1000 + (k % 3))
      [] c = "crystalSystem"   -> Item(2000 + ((k + r) % 2))
      [] c = "mainLocation"    ->
            IF d.loc = "dupcode" THEN <<OTHER_PREFIX>> \o Code(k)
            ELSE CASE k % 5 = 0 -> <<GENID_PREFIX, "b", ToString(k)>>
                   [] k % 5 = 1 -> <<"Alps">>
                   [] k % 5 = 2 -> <<>>
                   [] OTHER     -> Item(3000 + (k % 2))
      [] c = "image"           -> <<IMAGE_PREFIX, "img.jpg">>
      [] OTHER                 -> Null

Stage2Binding(d, k, r) ==
    LET bound == {c \in Range(Stage2Vars(d)) : Stage2Value(d, k, r, c) # Null}
    IN  [c \in bound |-> Stage2Value(d, k, r, c)]

\* results.bindings of the stage-2 query for a batch of identifiers.
Stage2Bindings(d, batch) ==
    Flatten([b \in 1..Len(batch) |->
                LET k == ItemIndex(batch[b])
                IN  [r \in 1..Stage2RowCount(d, k) |-> Stage2Binding(d, k, r)]])

\* entities of a wbgetentities response: code -> labels.<lang>.value, Null
\* where the entity has no label in the language.
RemoteEntities(chunk) ==
    LET known == {c \in Range(chunk) : Len(c) = 2 /\ c[1] = "Q" /\ c \notin AbsentCodes}
    IN  [c \in known |-> IF c \in UnlabelledCodes THEN Null ELSE LabelText(c)]

(***************************************************************************)
(* DataFrames.                                                             *)
(***************************************************************************)
EmptyDF == [columns |-> {}, rows |-> <<>>]

\* pd.DataFrame(results), results built row by row from head.vars.
DataFrameOf(vs, bindings) ==
    IF Len(bindings) = 0 THEN EmptyDF
    ELSE [columns |-> Range(vs),
          rows |-> [k \in 1..Len(bindings) |->
                      [c \in Range(vs) |->
                          IF c \in DOMAIN bindings[k] THEN bindings[k][c] ELSE Null]]]

\* df.empty
DfEmpty(df) == Len(df.rows) = 0 \/ df.columns = {}

Reindex(df, cols) ==
    [k \in 1..Len(df.rows) |->
        [c \in cols |-> IF c \in df.columns THEN df.rows[k][c] ELSE Null]]

\* Mutant of Concat: the new batch is put in front of the table.
ConcatPrepend(a, b) ==
    LET cols == a.columns \cup b.columns
    IN  [columns |-> cols, rows |-> Reindex(b, cols) \o Reindex(a, cols)]

\* pd.concat([a, b], ignore_index=True)
Concat(a, b) ==
    LET cols == a.columns \cup b.columns
    IN  [columns |-> cols, rows |-> Reindex(a, cols) \o Reindex(b, cols)]

\* df[col].dropna().unique()
ColumnUniques(df, col) ==
    Unique(SelectSeq([k \in 1..Len(df.rows) |-> df.rows[k][col]],
                     LAMBDA v : v # Null))

(***************************************************************************)
(* get_labels_from_api                                                     *)
(***************************************************************************)
\* list(all_qids) enumerates the set in an order the run does not control
\* (string hashing differs from run to run): three such orders, taken
\* against the order of first appearance.
Orders == {"asc", "desc", "rot"}

ListOfSet(s, order) ==
    CASE order = "asc"  -> s
      [] order = "desc" -> Reverse(s)
      [] order = "rot"  -> RotateLeft(s)

LabelCols == <<"item", "color", "crystalSystem", "mainLocation">>

\* all_qids: the distinct non-null values of the label columns present.
AllQids(df) ==
    Unique(Flatten([k \in 1..Len(LabelCols) |->
                      IF LabelCols[k] \in df.columns
                      THEN ColumnUniques(df, LabelCols[k]) ELSE <<>>]))

\* Mutant of EligibleCodes: the test for the full-URI form is left out.
EligibleCodesAnyText(qs) ==
    LET kept == SelectSeq(qs, LAMBDA q : Truthy(q))
    IN  [k \in 1..Len(kept) |-> LastSegment(kept[k])]

\* [q.split('/')[-1] for q in qids if q and q.startswith('http')]
EligibleCodes(qs) ==
    LET kept == SelectSeq(qs, LAMBDA q : Truthy(q) /\ StartsWithHttp(q))
    IN  [k \in 1..Len(kept) |-> LastSegment(kept[k])]

\* Mutant of Chunk: the slice is one code short.
ChunkShort(codes, from) ==
    SubSeq(codes, from + 1, Min2(from + CHUNK_SIZE - 1, Len(codes)))

\* qids[i:i + 50]
Chunk(codes, from) == SubSeq(codes, from + 1, Min2(from + CHUNK_SIZE, Len(codes)))

LabelKey(qid) == <<ENTITY_PREFIX>> \o qid

\* Mutant of AddLabels: the map is started afresh for every chunk.
AddLabelsReset(labels, entities) ==
    [key \in {LabelKey(c) : c \in DOMAIN entities} |->
        LET c == CHOOSE c \in DOMAIN entities : LabelKey(c) = key
        IN  IF entities[c] = Null THEN c ELSE entities[c]]

\* The loop over data['entities']: labels[key] = label, the bare code where
\* the entity has no label in the language; a later entry replaces an earlier.
AddLabels(labels, entities) ==
    LET new == [key \in {LabelKey(c) : c \in DOMAIN entities} |->
                  LET c == CHOOSE c \in DOMAIN entities : LabelKey(c) = key
                  IN  IF entities[c] = Null THEN c ELSE entities[c]]
    IN  new @@ labels

(***************************************************************************)
(* process_and_save_data: the transform.                                   *)
(***************************************************************************)
FinalCols == <<"itemLabel", "chemicalFormula", "mohsHardness", "densityValue",
               "colorLabel", "crystalSystemLabel", "refractiveIndex",
               "mainLocationLabel", "image", "itemURI">>

LabelName(col) ==
    CASE col = "color"         -> "colorLabel"
      [] col = "crystalSystem" -> "crystalSystemLabel"
      [] col = "mainLocation"  -> "mainLocationLabel"

\* Mutant of MapFillna: the fillna is left out.
MapNoFillna(v, labels) == IF v \in DOMAIN labels THEN labels[v] ELSE Null

\* series.map(labels_map).fillna(series), for one value.
MapFillna(v, labels) ==
    LET mapped == IF v \in DOMAIN labels THEN labels[v] ELSE Null
    IN  IF mapped = Null THEN v ELSE mapped

\* df[name] = values: adds the column, or replaces it.
SetCol(df, name, values) ==
    LET cols == df.columns \cup {name}
    IN  [columns |-> cols,
         rows |-> [k \in 1..Len(df.rows) |->
                     [c \in cols |-> IF c = name THEN values[k] ELSE df.rows[k][c]]]]

\* df[name]
Column(df, name) == [k \in 1..Len(df.rows) |-> df.rows[k][name]]

DropCol(df, name) ==
    LET cols == df.columns \ {name}
    IN  [columns |-> cols,
         rows |-> [k \in 1..Len(df.rows) |-> [c \in cols |-> df.rows[k][c]]]]

\* df.rename(columns={'item': 'itemURI'})
RenameItem(df) ==
    IF "item" \in df.columns
    THEN DropCol(SetCol(df, "itemURI", Column(df, "item")), "item")
    ELSE df

\* Lines 101-102 raise when the table has no item column under either name
\* (KeyError), or has both (the rename makes two itemURI columns, and
\* df['itemURI'] is then a table, which has no dictionary map).
TransformRaises(df) ==
    ("item" \in df.columns) = ("itemURI" \in df.columns)

\* series.map(labels_map).fillna(series)
MapSeries(series, labels) == [k \in 1..Len(series) |-> MapFillna(series[k], labels)]

LabelStep(df, old_col, labels) ==
    IF old_col \in df.columns
    THEN DropCol(SetCol(df, LabelName(old_col),
                        MapSeries(Column(df, old_col), labels)), old_col)
    ELSE df

DensityStep(df) ==
    IF "densityNode" \in df.columns
    THEN LET node == Column(df, "densityNode")
         IN  DropCol(SetCol(df, "densityValue",
                            [k \in 1..Len(node) |-> ExtractDensity(node[k])]),
                     "densityNode")
    ELSE df

\* Mutant of SelectFinal: every column of the fixed list is written, the
\* missing ones empty.
SelectFinalAll(df) ==
    [columns |-> FinalCols,
     rows |-> [k \in 1..Len(df.rows) |->
                 [c \in Range(FinalCols) |->
                     IF c \in df.columns THEN df.rows[k][c] ELSE Null]]]

\* Lines 116-119: df[[col for col in final_cols if col in df.columns]]
SelectFinal(df) ==
    LET final_cols == SelectSeq(FinalCols, LAMBDA c : c \in df.columns)
    IN  [columns |-> final_cols,
         rows |-> [k \in 1..Len(df.rows) |->
                     [c \in Range(final_cols) |-> df.rows[k][c]]]]

\* Lines 101-119: the table that is written.
Transform(df, labels) ==
    LET d1 == RenameItem(df)
        d2 == SetCol(d1, "itemLabel", MapSeries(Column(d1, "itemURI"), labels))
        d3 == LabelStep(d2, "color", labels)
        d4 == LabelStep(d3, "crystalSystem", labels)
        d5 == LabelStep(d4, "mainLocation", labels)
    IN  SelectFinal(DensityStep(d5))

(***************************************************************************)
(* The run.                                                                *)
(***************************************************************************)
\* What a call to an endpoint may answer: the status, and whether the body
\* parses as the expected JSON.
Outcomes == {[status |-> HTTP_OK, json |-> TRUE],
             [status |-> 500, json |-> TRUE],
             [status |-> HTTP_OK, json |-> FALSE]}

\* The call succeeded: a success status and a body that parses.
Succeeded(o) == o.status = HTTP_OK /\ o.json

\* Mutant of SparqlOk: the status is not looked at.
SparqlOkAnyStatus(o) == o.json

\* execute_sparql_query returns (it raises otherwise).
SparqlOk(o) == o.status = HTTP_OK /\ o.json

\* Neither raise_for_status() nor response.json() raises.
LookupOk(o) == o.status < 400 /\ o.json

Event(kind, ok, arg, n) == [kind |-> kind, ok |-> ok, arg |-> arg, rows |-> n]

NoFile == [columns |-> <<"<absent>">>, rows |-> <<>>]

OldFile == [columns |-> <<"itemLabel", "itemURI">>, rows |-> <<>>]

EmptyMap == [key \in {} |-> Null]

\* Mutant of PauseAfter: the loop sleeps after every batch.
PauseAlways(batch_number, num_batches) == batch_number <= num_batches

\* Line 161: whether the loop sleeps after this batch.
PauseAfter(batch_number, num_batches) == batch_number < num_batches

\* for i in range(0, len(item_uris), BATCH_SIZE): the loop test.
BatchLoop(from) == IF from < Len(item_uris) THEN "batch" ELSE "process"

\* Lines 126-137: the stage-1 query and the list of item identifiers.
Stage1Query ==
    /\ pc = "start"
    /\ \E o \in Outcomes :
        /\ events' = Append(events, Event("stage1", Succeeded(o), <<>>, ds.n))
        /\ IF ~SparqlOk(o)
           THEN pc' = "aborted" /\ UNCHANGED item_uris
           ELSE LET df_ids == DataFrameOf(Stage1Vars(ds), Stage1Bindings(ds))
                IN  IF "item" \notin df_ids.columns
                    THEN pc' = "aborted" /\ UNCHANGED item_uris
                    ELSE LET uris == Unique([k \in 1..Len(df_ids.rows) |->
                                               df_ids.rows[k]["item"]])
                         IN  /\ item_uris' = uris
                             /\ pc' = IF uris = <<>> THEN "done" ELSE "batch"
    /\ i' = 0
    /\ all_results_df' = EmptyDF
    /\ UNCHANGED <<qids, j, labels_map, file, ds, run, prev>>

\* Lines 148-163: one iteration of the stage-2 loop, up to its pause.
Stage2Batch ==
    /\ pc = "batch"
    /\ i < Len(item_uris)
    /\ LET num_batches == (Len(item_uris) + BATCH_SIZE - 1) \div BATCH_SIZE
           batch_number == (i \div BATCH_SIZE) + 1
           batch_uris == SubSeq(item_uris, i + 1, Min2(i + BATCH_SIZE, Len(item_uris)))
           batch_df == DataFrameOf(Stage2Vars(ds), Stage2Bindings(ds, batch_uris))
       IN  \E o \in Outcomes :
            /\ events' = Append(events, Event("stage2", Succeeded(o), batch_uris,
                                              IF Succeeded(o) THEN Len(batch_df.rows) ELSE 0))
            /\ IF ~SparqlOk(o)
               THEN pc' = "aborted" /\ UNCHANGED <<all_results_df, i>>
               ELSE /\ all_results_df' = Concat(all_results_df, batch_df)
                    /\ i' = i + BATCH_SIZE
                    /\ pc' = IF PauseAfter(batch_number, num_batches) THEN "pause"
                             ELSE BatchLoop(i + BATCH_SIZE)
    /\ UNCHANGED <<item_uris, qids, j, labels_map, file, ds, run, prev>>

\* Lines 161-163: time.sleep(1) between two batches.
BatchPause ==
    /\ pc = "pause"
    /\ events' = Append(events, Event("pause", TRUE, <<>>, 0))
    /\ pc' = BatchLoop(i)
    /\ UNCHANGED <<item_uris, i, all_results_df, qids, j, labels_map, file, ds, run, prev>>

\* Lines 88-99 and 15-19: process_and_save_data up to the first lookup.
ProcessStart ==
    /\ pc = "process"
    /\ IF DfEmpty(all_results_df)
       THEN pc' = "done" /\ UNCHANGED <<qids, j, labels_map>>
       ELSE \E order \in Orders :
              LET codes == EligibleCodes(ListOfSet(AllQids(all_results_df), order))
              IN  /\ qids' = codes
                  /\ j' = 0
                  /\ labels_map' = EmptyMap
                  /\ pc' = IF codes = <<>> THEN "save" ELSE "lookup"
    /\ UNCHANGED <<item_uris, i, all_results_df, file, events, ds, run, prev>>

\* Lines 20-39: one lookup call and what it adds to the map.
LabelLookup ==
    /\ pc = "lookup"
    /\ j < Len(qids)
    /\ LET chunk == Chunk(qids, j)
       IN  \E o \in Outcomes :
            /\ events' = Append(events, Event("lookup", Succeeded(o), chunk, 0))
            /\ labels_map' = IF LookupOk(o)
                             THEN AddLabels(labels_map, RemoteEntities(chunk))
                             ELSE labels_map
    /\ pc' = "sleep"
    /\ UNCHANGED <<item_uris, i, all_results_df, qids, j, file, ds, run, prev>>

\* Line 42: time.sleep(1) after the lookup, then the loop test.
LookupSleep ==
    /\ pc = "sleep"
    /\ events' = Append(events, Event("sleep", TRUE, <<>>, 0))
    /\ j' = j + CHUNK_SIZE
    /\ pc' = IF j + CHUNK_SIZE < Len(qids) THEN "lookup" ELSE "save"
    /\ UNCHANGED <<item_uris, i, all_results_df, qids, labels_map, file, ds, run, prev>>

\* Lines 101-123: the transform and the write of the output file.
SaveData ==
    /\ pc = "save"
    /\ IF TransformRaises(all_results_df)
       THEN pc' = "aborted" /\ UNCHANGED <<file, events>>
       ELSE /\ file' = Transform(all_results_df, labels_map)
            /\ events' = Append(events, Event("write", TRUE, <<>>,
                                              Len(all_results_df.rows)))
            /\ pc' = "done"
    /\ UNCHANGED <<item_uris, i, all_results_df, qids, j, labels_map, ds, run, prev>>

Wrote == \E e \in 1..Len(events) : events[e].kind = "write"

LookupFailed == \E e \in 1..Len(events) : events[e].kind = "lookup" /\ ~events[e].ok

\* The script is run again against the same remote dataset.
Restart ==
    /\ pc \in {"done", "aborted"}
    /\ run < MaxRuns
    /\ run' = run + 1
    /\ prev' = [file |-> file, wrote |-> Wrote, clean |-> ~LookupFailed]
    /\ pc' = "start"
    /\ item_uris' = <<>>
    /\ i' = 0
    /\ all_results_df' = EmptyDF
    /\ qids' = <<>>
    /\ j' = 0
    /\ labels_map' = EmptyMap
    /\ events' = <<>>
    /\ UNCHANGED <<file, ds>>

(***************************************************************************)
(* Specifications.                                                         *)
(***************************************************************************)
DS(n, shape, rowsPer, vars2, loc) ==
    [n |-> n, shape |-> shape, rowsPer |-> rowsPer, vars2 |-> vars2, loc |-> loc]

\* The sizes of the stage-1 result: around every batch boundary.
Sizes ==
    {n \in {0, 1, 2, 120} \cup {BATCH_SIZE * k + d : k \in 0..MaxBatches, d \in {0, 1}} :
        n <= MaxN}

PipelineDatasets ==
    {DS(n, "distinct", r, v, "entity") :
        n \in Sizes, r \in {"zero", "one", "mixed"}, v \in {"full", "noloc"}}
    \cup {DS(n, s, "one", "full", "entity") :
        n \in Sizes, s \in {"dup", "unbound", "noitemvar"}}
    \cup {DS(n, "distinct", "one", "full", "dupcode") : n \in {2, BATCH_SIZE + 1}}

RerunDatasets ==
    {DS(n, "distinct", "one", "full", l) :
        n \in {1, BATCH_SIZE + 1}, l \in {"entity", "dupcode"}}

ProcessDataset == DS(0, "distinct", "zero", "full", "entity")

InitRun ==
    /\ pc = "start"
    /\ item_uris = <<>>
    /\ i = 0
    /\ all_results_df = EmptyDF
    /\ qids = <<>>
    /\ j = 0
    /\ labels_map = EmptyMap
    /\ events = <<>>
    /\ run = 1

Init ==
    /\ InitRun
    /\ ds \in PipelineDatasets
    /\ file \in {NoFile, OldFile}
    /\ prev = [file |-> file, wrote |-> FALSE, clean |-> FALSE]

Next ==
    \/ Stage1Query
    \/ Stage2Batch
    \/ BatchPause
    \/ ProcessStart
    \/ LabelLookup
    \/ LookupSleep
    \/ SaveData

Spec == Init /\ [][Next]_vars

\* Two runs in a row against one dataset.
InitRerun ==
    /\ InitRun
    /\ ds \in RerunDatasets
    /\ file \in {NoFile, OldFile}
    /\ prev = [file |-> file, wrote |-> FALSE, clean |-> FALSE]

NextRerun == Next \/ Restart

SpecRerun == InitRerun /\ [][NextRerun]_vars

\* process_and_save_data on its own, on every small table.
ProcessCols == {"item", "itemURI", "color", "mainLocation", "mainLocationLabel",
                "densityNode", "chemicalFormula", "extra"}

RowKinds == 1..3

KindValue(kind, col) ==
    CASE col \in {"item", "itemURI"} ->
            CASE kind = 1 -> Item(1) [] kind = 2 -> Item(3) [] OTHER -> Item(2)
      [] col = "color" ->
            CASE kind = 1 -> Item(2) [] kind = 2 -> <<>> [] OTHER -> <<"red">>
      [] col = "mainLocation" ->
            CASE kind = 1 -> Null [] kind = 2 -> <<OTHER_PREFIX>> \o Code(1)
              [] OTHER -> Item(1)
      [] col = "mainLocationLabel" ->
            CASE kind = 2 -> Null [] OTHER -> <<"Alps">>
      [] col = "densityNode" ->
            CASE kind = 1 -> <<"2", ".", "6", "5", " ", "g", "/", "c", "m", "3">>
              [] kind = 2 -> Null
              [] OTHER -> <<"n", ".", "a", ".">>
      [] col = "chemicalFormula" ->
            CASE kind = 2 -> Null [] OTHER -> <<"SiO2">>
      [] OTHER -> <<"x">>

\* The whole stage-2 table of a dataset whose stage 1 binds n distinct items.
WholeTable(d) ==
    DataFrameOf(Stage2Vars(d), Stage2Bindings(d, [k \in 1..d.n |-> Item(k)]))

LargeTables ==
    {WholeTable(DS(n, "distinct", "one", v, "entity")) :
        n \in {BATCH_SIZE, BATCH_SIZE + 1, MaxN}, v \in {"full", "noloc"}}
    \cup {WholeTable(DS(BATCH_SIZE + 1, "distinct", "one", "full", "dupcode"))}

ProcessTables ==
    {EmptyDF}
    \cup LargeTables
    \cup {[columns |-> cols,
           rows |-> [k \in 1..Len(ks) |-> [c \in cols |-> KindValue(ks[k], c)]]] :
            cols \in SUBSET ProcessCols,
            ks \in UNION {[1..n -> RowKinds] : n \in 1..MaxRows}}

InitProcess ==
    /\ pc = "process"
    /\ all_results_df \in ProcessTables
    /\ item_uris = <<>>
    /\ i = 0
    /\ qids = <<>>
    /\ j = 0
    /\ labels_map = EmptyMap
    /\ events = <<>>
    /\ run = 1
    /\ ds = ProcessDataset
    /\ file = NoFile
    /\ prev = [file |-> file, wrote |-> FALSE, clean |-> FALSE]

NextProcess ==
    \/ ProcessStart
    \/ LabelLookup
    \/ LookupSleep
    \/ SaveData

SpecProcess == InitProcess /\ [][NextProcess]_vars

(***************************************************************************)
(* What the claims speak of.                                               *)
(***************************************************************************)
EventsOf(kind) == SelectSeq(events, LAMBDA e : e.kind = kind)

HasEvent(kind) == \E e \in 1..Len(events) : events[e].kind = kind

CeilDiv(a, b) == (a + b - 1) \div b

\* The k-th consecutive slice of size at most size.
Slice(s, k, size) == SubSeq(s, (k - 1) * size + 1, Min2(k * size, Len(s)))

RECURSIVE SumRows(_, _, _)
SumRows(es, lo, hi) ==
    IF lo > hi THEN 0
    ELSE IF lo = hi THEN es[lo].rows
    ELSE LET mid == (lo + hi) \div 2
         IN  SumRows(es, lo, mid) + SumRows(es, mid + 1, hi)

\* The stage-2 loop has run to its end.
Stage2Finished ==
    /\ item_uris # <<>>
    /\ pc \in {"process", "lookup", "sleep", "save", "done"}

\* The rows the endpoint answers a batch with, as a table's rows.
BatchRows(batch) == DataFrameOf(Stage2Vars(ds), Stage2Bindings(ds, batch)).rows

\* C1: the stage-2 loop issues ceil(n/B) calls, the k-th carrying the k-th
\* consecutive slice of the identifier list (at most B identifiers, only the
\* last slice smaller), so that the calls together carry the list, each
\* identifier once and in order; the concatenated table is the per-batch
\* tables in batch order, and its row count the sum of theirs.
C1_Batching ==
    LET calls == EventsOf("stage2")
        n == Len(item_uris)
        total == CeilDiv(n, BATCH_SIZE)
    IN  /\ Len(calls) <= total
        /\ \A k \in 1..Len(calls) :
              /\ calls[k].arg = Slice(item_uris, k, BATCH_SIZE)
              /\ Len(calls[k].arg) >= 1
              /\ Len(calls[k].arg) <= BATCH_SIZE
              /\ k < total => Len(calls[k].arg) = BATCH_SIZE
        /\ Stage2Finished =>
              /\ Len(calls) = total
              /\ Flatten([k \in 1..Len(calls) |-> calls[k].arg]) = item_uris
        /\ all_results_df.rows =
              Flatten([k \in 1..Len(calls) |->
                          IF calls[k].ok THEN BatchRows(calls[k].arg) ELSE <<>>])
        /\ Len(all_results_df.rows) = SumRows(calls, 1, Len(calls))

C1_Witness ==
    LET calls == EventsOf("stage2")
    IN  /\ Stage2Finished
        /\ Len(item_uris) = 120
        /\ Len(calls) = 3
        /\ Len(calls[3].arg) = 20
        /\ calls[1].rows > 0 /\ calls[2].rows > 0 /\ calls[3].rows > 0
        /\ calls[2].rows # calls[3].rows

\* C2: a failed stage-1 or stage-2 query is the last thing the run does: no
\* call and no write follows, and the file is left as it was; the file is
\* written at most once, as the last step, after all ceil(n/B) batch calls
\* succeeded and all ceil(m/50) lookup calls (each with its pause) are over.
C2_FailureAborts ==
    LET writes == EventsOf("write")
        lookups == EventsOf("lookup")
        sleeps == EventsOf("sleep")
        calls == EventsOf("stage2")
    IN  /\ \A e \in 1..Len(events) :
              (events[e].kind \in {"stage1", "stage2"} /\ ~events[e].ok) =>
                  /\ e = Len(events)
                  /\ pc = "aborted"
                  /\ file = prev.file
        /\ Len(writes) <= 1
        /\ ~HasEvent("write") => file = prev.file
        /\ HasEvent("write") =>
              /\ events[Len(events)].kind = "write"
              /\ pc = "done"
              /\ Len(calls) = CeilDiv(Len(item_uris), BATCH_SIZE)
              /\ \A k \in 1..Len(calls) : calls[k].ok
              /\ Len(lookups) = CeilDiv(Len(qids), CHUNK_SIZE)
              /\ Len(sleeps) = Len(lookups)

C2_Witness ==
    /\ pc = "aborted"
    /\ Len(events) = 4
    /\ events[2].kind = "stage2" /\ events[2].ok /\ events[2].rows > 0
    /\ events[4].kind = "stage2" /\ ~events[4].ok
    /\ file = OldFile

NoIdentifiers == \A k \in 1..ds.n : "item" \notin DOMAIN Stage1Bindings(ds)[k]

\* C10 (the claim as stated): lookups and the write happen only when the
\* concatenated table has a row; when stage 1 returns no item identifier
\* there is no stage-2 call, no lookup and no write; when every batch
\* returns no row there is no lookup and no write, and the file stays.
C10_Claim ==
    /\ (HasEvent("write") \/ HasEvent("lookup")) => Len(all_results_df.rows) >= 1
    /\ NoIdentifiers =>
          ~HasEvent("stage2") /\ ~HasEvent("lookup") /\ ~HasEvent("write")
    /\ (Stage2Finished /\ Len(all_results_df.rows) = 0) =>
          /\ pc \in {"process", "done"}
          /\ ~HasEvent("lookup") /\ ~HasEvent("write")
          /\ file = prev.file

\* The values of all_qids that get_labels_from_api keeps.
Eligible == {q \in Range(AllQids(all_results_df)) : Truthy(q) /\ StartsWithHttp(q)}

\* process_and_save_data is past its empty-table return.
LabelsStarted ==
    /\ ~DfEmpty(all_results_df)
    /\ pc \in {"lookup", "sleep", "save", "done", "aborted"}

\* get_labels_from_api has returned.
LabelsReturned ==
    /\ ~DfEmpty(all_results_df)
    /\ pc \in {"save", "done", "aborted"}

Count(s, x) == Len(SelectSeq(s, LAMBDA y : y = x))

CodesOf(ok) ==
    UNION {Range(events[e].arg) :
              e \in {x \in 1..Len(events) : events[x].kind = "lookup" /\ events[x].ok = ok}}

\* What the map holds for a code the endpoint returned.
ResolvedLabel(c) == IF c \in UnlabelledCodes THEN c ELSE LabelText(c)

\* Label resolution never ends the run, and every chunk is attempted.
LookupsNeverRaise ==
    /\ LabelsReturned => Len(EventsOf("lookup")) = CeilDiv(Len(qids), CHUNK_SIZE)
    /\ pc = "aborted" => TransformRaises(all_results_df)
    /\ (pc = "done" /\ ~DfEmpty(all_results_df)) => HasEvent("write")

ItemCol == IF "item" \in all_results_df.columns THEN "item" ELSE "itemURI"

\* The label columns of the stage-2 table, each with its companion.
Companions ==
    {<<ItemCol, "itemLabel">>}
    \cup {<<c, LabelName(c)>> : c \in {"color", "crystalSystem", "mainLocation"}
                                      \cap all_results_df.columns}

\* C4: in the written table every value of a companion label column is the
\* map's entry for the raw value when the raw value is a key of the map, and
\* the raw value itself otherwise; no row is dropped and no value that is
\* missing from the map becomes null.
C4_LabelOrRaw ==
    HasEvent("write") =>
        /\ Len(file.rows) = Len(all_results_df.rows)
        /\ \A k \in 1..Len(all_results_df.rows) : \A p \in Companions :
              LET raw == all_results_df.rows[k][p[1]]
                  out == file.rows[k][p[2]]
              IN  /\ out = IF raw \in DOMAIN labels_map THEN labels_map[raw] ELSE raw
                  /\ raw # Null => out # Null

C4_Witness ==
    /\ HasEvent("write")
    /\ \E k \in 1..Len(all_results_df.rows) : \E p \in Companions :
          /\ p[1] # ItemCol
          /\ all_results_df.rows[k][p[1]] \in DOMAIN labels_map
          /\ file.rows[k][p[2]] # all_results_df.rows[k][p[1]]
    /\ \E k \in 1..Len(all_results_df.rows) : \E p \in Companions :
          /\ StartsWithHttp(all_results_df.rows[k][p[1]])
          /\ all_results_df.rows[k][p[1]] \notin DOMAIN labels_map
          /\ file.rows[k][p[2]] = all_results_df.rows[k][p[1]]

\* The stage-2 column a final column is made from.
SourceCol(c) ==
    CASE c \in {"itemLabel", "itemURI"} -> "item"
      [] c = "densityValue"             -> "densityNode"
      [] c = "colorLabel"               -> "color"
      [] c = "crystalSystemLabel"       -> "crystalSystem"
      [] c = "mainLocationLabel"        -> "mainLocation"
      [] OTHER                          -> c

\* C5 (as stated): the written columns are the columns of the fixed list
\* whose source column is in the stage-2 table, in the list's order, and
\* there is one written row per row of the table.
C5_Original ==
    HasEvent("write") =>
        /\ file.columns =
              SelectSeq(FinalCols, LAMBDA c : SourceCol(c) \in all_results_df.columns)
        /\ Len(file.rows) = Len(all_results_df.rows)

\* C5 (amended): the written columns are the columns of the fixed list that
\* the table has after the transform, in the list's order: those whose
\* source column is in the stage-2 table, and those the stage-2 table
\* already has under the final name (itemLabel also when the item column is
\* already named itemURI); there is one written row per row of the table.
C5_ColumnsOfWorkingTable ==
    HasEvent("write") =>
        /\ file.columns =
              SelectSeq(FinalCols,
                        LAMBDA c : \/ SourceCol(c) \in all_results_df.columns
                                   \/ c \in all_results_df.columns
                                   \/ c = "itemLabel" /\ "itemURI" \in all_results_df.columns)
        /\ Len(file.rows) = Len(all_results_df.rows)
        /\ \A k \in 1..Len(file.rows) : DOMAIN file.rows[k] = Range(file.columns)

C5_Witness ==
    /\ HasEvent("write")
    /\ all_results_df.columns = {"item", "mainLocationLabel", "chemicalFormula", "extra"}
    /\ file.columns = <<"itemLabel", "chemicalFormula", "mainLocationLabel", "itemURI">>
    /\ Len(file.rows) = 2

\* The first decimal number in a string: digits, and a fraction if one follows.
FirstDecimal(s) ==
    LET at == {k \in 1..Len(s) : s[k] \in Digits}
        RunEnd(a) == MaxOf({e \in a..Len(s) : \A k \in a..e : s[k] \in Digits})
    IN  IF at = {} THEN Null
        ELSE LET a == MinOf(at)
                 b == RunEnd(a)
             IN  IF b + 2 <= Len(s) /\ s[b + 1] = "." /\ s[b + 2] \in Digits
                 THEN SubSeq(s, a, RunEnd(b + 2))
                 ELSE SubSeq(s, a, b)

\* C7 (the claim as stated): densityValue is the first decimal number in the
\* densityNode value, null when the value holds no number (a null
\* densityNode included), and densityNode itself is not written.
C7_Claim ==
    (HasEvent("write") /\ "densityNode" \in all_results_df.columns) =>
        /\ "densityNode" \notin Range(file.columns)
        /\ \A k \in 1..Len(file.rows) :
              file.rows[k]["densityValue"] =
                  FirstDecimal(Str(all_results_df.rows[k]["densityNode"]))

\* C8: two full runs against the same dataset, none of whose lookups failed,
\* write the same file, whatever the orders in which the two runs listed
\* the identifiers.
C8_SameFile ==
    (run > 1 /\ pc = "done" /\ HasEvent("write") /\ ~LookupFailed
        /\ prev.wrote /\ prev.clean) => file = prev.file

C8_Witness ==
    /\ run = 2
    /\ pc = "done"
    /\ HasEvent("write")
    /\ ~LookupFailed
    /\ prev.wrote /\ prev.clean
    /\ Len(qids) > CHUNK_SIZE
    /\ Len(file.rows) > CHUNK_SIZE
    /\ file = prev.file
====
